---- MODULE Spec2Model ----
(***************************************************************************)
(* Model of the ImageTextExtractor component (src/unnamed/part_000):        *)
(*   - the field-extraction code that runs inside extractText once OCR has  *)
(*     produced a text (lines 112-166), as operators on strings;            *)
(*   - the component's state and its handlers (handleFile, clearImage,      *)
(*     extractText and the asynchronous completions it awaits).             *)
(* Strings are TLA+ strings; a character is a string of length 1.           *)
(***************************************************************************)
EXTENDS Integers, Sequences, FiniteSets, TLC

VARIABLES
    selectedImage,    \* useState<File | null>: a file, or NoFile
    imagePreview,     \* useState<string>: data URL of a file, "" when none
    extractedText,    \* useState<string>
    isProcessing,     \* useState<boolean>
    progress,         \* useState<number>
    extractedFields,  \* useState<Record<string,string>>: entries in insertion order
    pendingReads,     \* FileReader loads started and not yet delivered, per file
    call,             \* the extractText call in flight: where it awaits, what it captured
    liveWorkers,      \* OCR workers created and not terminated
    alertMessage,     \* the message of the last alert() shown, "" when none
    text,             \* the OCR text of the extraction run under study
    importantFields,  \* the field configuration of that run
    lines,            \* its normalized line sequence
    fields,           \* its local `fields` object
    xpc               \* position of that run inside the try block

uiVars == <<selectedImage, imagePreview, extractedText, isProcessing, progress,
            extractedFields, pendingReads, call, liveWorkers, alertMessage>>
runVars == <<text, importantFields, lines, fields, xpc>>
vars == <<selectedImage, imagePreview, extractedText, isProcessing, progress,
          extractedFields, pendingReads, call, liveWorkers, alertMessage,
          text, importantFields, lines, fields, xpc>>

(***************************************************************************)
(* Bounds                                                                   *)
(***************************************************************************)
MaxSegments == 3      \* newline-separated segments in an enumerated OCR text
MaxReads == 1         \* FileReader loads pending at once, per file
MaxWorkers == 2       \* OCR workers alive at once

(***************************************************************************)
(* String primitives of the JavaScript runtime used by the code             *)
(***************************************************************************)
Char(s, i) == SubSeq(s, i, i)

UpperCase == "ABCDEFGHIJKLMNOPQRSTUVWXYZ"
LowerCase == "abcdefghijklmnopqrstuvwxyz"

\* the lower-case letter of each upper-case letter
LowerOf ==
    [c \in {Char(UpperCase, i) : i \in 1..Len(UpperCase)} |->
        Char(LowerCase, CHOOSE i \in 1..Len(UpperCase) : Char(UpperCase, i) = c)]

toLowerChar(c) == IF c \in DOMAIN LowerOf THEN LowerOf[c] ELSE c

\* String.prototype.toLowerCase
RECURSIVE toLowerCase(_)
toLowerCase(s) ==
    IF Len(s) = 0 THEN "" ELSE toLowerChar(Head(s)) \o toLowerCase(Tail(s))

\* String.prototype.includes
includes(s, p) ==
    \E i \in 0..(Len(s) - Len(p)) : SubSeq(s, i + 1, i + Len(p)) = p

WhiteSpace == {" ", "\t", "\r", "\n"}

RECURSIVE trimStart(_)
trimStart(s) ==
    IF Len(s) = 0 THEN ""
    ELSE IF Head(s) \in WhiteSpace THEN trimStart(Tail(s)) ELSE s

RECURSIVE trimEnd(_)
trimEnd(s) ==
    IF Len(s) = 0 THEN ""
    ELSE IF Char(s, Len(s)) \in WhiteSpace THEN trimEnd(SubSeq(s, 1, Len(s) - 1)) ELSE s

\* String.prototype.trim
trim(s) == trimEnd(trimStart(s))

\* text.split("\n"): the segments between newlines; "" gives one empty segment
RECURSIVE split(_)
split(s) ==
    IF \E i \in 1..Len(s) : Char(s, i) = "\n"
    THEN LET i == CHOOSE k \in 1..Len(s) :
                    Char(s, k) = "\n" /\ \A m \in 1..(k - 1) : Char(s, m) # "\n"
         IN <<SubSeq(s, 1, i - 1)>> \o split(SubSeq(s, i + 1, Len(s)))
    ELSE <<s>>

\* line.replace(new RegExp(pattern, "gi"), ""): every non-overlapping
\* occurrence, leftmost first, compared without regard to case.  The
\* configured patterns hold no regular-expression metacharacter.
RECURSIVE replacePattern(_, _)
replacePattern(s, pattern) ==
    IF Len(pattern) = 0 \/ Len(s) < Len(pattern) THEN s
    ELSE IF toLowerCase(SubSeq(s, 1, Len(pattern))) = toLowerCase(pattern)
         THEN replacePattern(SubSeq(s, Len(pattern) + 1, Len(s)), pattern)
         ELSE Head(s) \o replacePattern(Tail(s), pattern)

Punctuation == {":", "=", "-", "|"}

\* variant: the character class without the hyphen, /[:=|]/g
RECURSIVE replacePunctuationKeepHyphen(_)
replacePunctuationKeepHyphen(s) ==
    IF Len(s) = 0 THEN ""
    ELSE IF Head(s) \in {":", "=", "|"} THEN replacePunctuationKeepHyphen(Tail(s))
         ELSE Head(s) \o replacePunctuationKeepHyphen(Tail(s))

\* .replace(/[:=\-|]/g, "")
RECURSIVE replacePunctuation(_)
replacePunctuation(s) ==
    IF Len(s) = 0 THEN ""
    ELSE IF Head(s) \in Punctuation THEN replacePunctuation(Tail(s))
         ELSE Head(s) \o replacePunctuation(Tail(s))

\* variant: Array.prototype.lastIndexOf
lastIndexOf(arr, x) ==
    IF \E i \in 1..Len(arr) : arr[i] = x
    THEN (CHOOSE i \in 1..Len(arr) :
              arr[i] = x /\ \A m \in (i + 1)..Len(arr) : arr[m] # x) - 1
    ELSE -1

\* Array.prototype.indexOf, 0-based, -1 when absent
indexOf(arr, x) ==
    IF \E i \in 1..Len(arr) : arr[i] = x
    THEN (CHOOSE i \in 1..Len(arr) :
              arr[i] = x /\ \A m \in 1..(i - 1) : arr[m] # x) - 1
    ELSE -1

(***************************************************************************)
(* The extraction code of extractText                                       *)
(***************************************************************************)
NotFound == "Not found"

\* const importantFields = [...]
CodeFields ==
    << [key |-> "Model Name", patterns |-> <<"model name", "model", "product">>],
       [key |-> "Model Number",
        patterns |-> <<"model number", "model no", "part number", "p/n">>],
       [key |-> "Serial Number",
        patterns |-> <<"serial number", "serial no", "s/n", "sn">>] >>

\* variant: text.split("\n").filter(line => line.trim() !== ""), the lines
\* kept as they are
normalizeUntrimmed(t) ==
    SelectSeq(split(t), LAMBDA l : Len(trim(l)) > 0)

\* text.split("\n").map(line => line.trim()).filter(line => line.length > 0)
normalize(t) ==
    LET segs == split(t)
        trimmed == [i \in 1..Len(segs) |-> trim(segs[i])]
    IN SelectSeq(trimmed, LAMBDA l : Len(l) > 0)

\* variant: the chain without its final .trim()
strippedValueUntrimmed(line, pattern) ==
    replacePunctuation(replacePattern(line, pattern))

\* the value computed from the matching line, lines 133-136
strippedValue(line, pattern) ==
    trim(replacePunctuation(replacePattern(line, pattern)))

\* the body of `if (lineLower.includes(pattern))`, lines 133-146
matchReturn(ls, line, pattern) ==
    LET value == strippedValue(line, pattern)
        lineIndex == indexOf(ls, line)
    IN IF Len(value) = 0 /\ lineIndex < Len(ls) - 1
       THEN trim(ls[lineIndex + 2])
       ELSE IF Len(value) = 0 THEN NotFound ELSE value

\* the two nested loops of extractFieldValue, from line i and pattern j on:
\* where the function returns (line, pattern; 0, 0 for the return after the
\* loops) and what it returns
RECURSIVE scan(_, _, _, _)
scan(fieldConfig, ls, i, j) ==
    IF i > Len(ls) THEN [line |-> 0, pattern |-> 0, value |-> NotFound]
    ELSE IF j > Len(fieldConfig.patterns) THEN scan(fieldConfig, ls, i + 1, 1)
    ELSE IF includes(toLowerCase(ls[i]), fieldConfig.patterns[j])
         THEN [line |-> i, pattern |-> j,
               value |-> matchReturn(ls, ls[i], fieldConfig.patterns[j])]
         ELSE scan(fieldConfig, ls, i, j + 1)

\* variant: the loops nested the other way, patterns outside and lines inside
RECURSIVE scanPatternMajor(_, _, _, _)
scanPatternMajor(fieldConfig, ls, j, i) ==
    IF j > Len(fieldConfig.patterns) THEN [line |-> 0, pattern |-> 0, value |-> NotFound]
    ELSE IF i > Len(ls) THEN scanPatternMajor(fieldConfig, ls, j + 1, 1)
    ELSE IF includes(toLowerCase(ls[i]), fieldConfig.patterns[j])
         THEN [line |-> i, pattern |-> j,
               value |-> matchReturn(ls, ls[i], fieldConfig.patterns[j])]
         ELSE scanPatternMajor(fieldConfig, ls, j, i + 1)

matchOfPatternMajor(fieldConfig, ls) == scanPatternMajor(fieldConfig, ls, 1, 1)

\* one call of extractFieldValue: where it returns and what
matchOf(fieldConfig, ls) == scan(fieldConfig, ls, 1, 1)

\* variant: no `return "Not found"` after the loops
extractFieldValueNoDefault(fieldConfig, ls) ==
    IF scan(fieldConfig, ls, 1, 1).line = 0 THEN "undefined"
    ELSE scan(fieldConfig, ls, 1, 1).value

extractFieldValue(fieldConfig, ls) == matchOf(fieldConfig, ls).value

\* fields[key] = value on an object that keeps insertion order
objectSet(obj, key, value) ==
    IF \E i \in 1..Len(obj) : obj[i].key = key
    THEN [i \in 1..Len(obj) |->
              IF obj[i].key = key THEN [key |-> key, value |-> value] ELSE obj[i]]
    ELSE Append(obj, [key |-> key, value |-> value])

\* fields[key]; undefined prints as "undefined" in a template literal
objectGet(obj, key) ==
    IF \E i \in 1..Len(obj) : obj[i].key = key
    THEN obj[CHOOSE i \in 1..Len(obj) : obj[i].key = key].value
    ELSE "undefined"

\* importantFields.forEach(field => fields[field.key] = extractFieldValue(field, lines))
RECURSIVE forEachField(_, _, _, _)
forEachField(config, ls, obj, k) ==
    IF k > Len(config) THEN obj
    ELSE forEachField(config, ls,
             objectSet(obj, config[k].key, extractFieldValue(config[k], ls)), k + 1)

buildFields(config, ls) == forEachField(config, ls, <<>>, 1)

\* importantFields.map(field => `${field.key}: ${fields[field.key]}`).join('\n')
RECURSIVE joinFrom(_, _, _)
joinFrom(config, obj, k) ==
    IF k > Len(config) THEN ""
    ELSE (IF k > 1 THEN "\n" ELSE "")
         \o config[k].key \o ": " \o objectGet(obj, config[k].key)
         \o joinFrom(config, obj, k + 1)

\* variant: the values alone, `${value}\n` per field
RECURSIVE valuesFrom(_, _, _)
valuesFrom(config, obj, k) ==
    IF k > Len(config) THEN ""
    ELSE objectGet(obj, config[k].key) \o "\n" \o valuesFrom(config, obj, k + 1)

fullTextValuesOnly(config, obj) == valuesFrom(config, obj, 1)

fullText(config, obj) == joinFrom(config, obj, 1)

(***************************************************************************)
(* The inputs: files the user can pick, and what OCR reads on them          *)
(***************************************************************************)
NoFile == "null"
Files == {"a.png", "b.png", "notes.txt", "huge.png"}

\* file.type.startsWith('image/')
isImageType(file) == file \in {"a.png", "b.png", "huge.png"}

\* file.size > 10 * 1024 * 1024
isTooLarge(file) == file = "huge.png"

\* reader.readAsDataURL(file): the data URL identifies the file
dataURL(file) == "data:" \o file

\* worker.recognize(selectedImage): the text recognized on an image
recognize(file) ==
    IF file = "a.png" THEN "Model: Acme X200\nS/N: 99-AB-221\n"
    ELSE "Model Number\n MX-4410 \n\n"

ErrorText == "Error occurred while extracting text. Please try again."
TypeAlert == "Please upload an image file"
SizeAlert == "File size should be less than 10MB"

\* Math.round(m.progress * 100) for the progress reports of the logger
ProgressValues == {0, 50, 100}

Idle == [pc |-> "idle", image |-> NoFile]

(***************************************************************************)
(* The component: state after the first render                              *)
(***************************************************************************)
Init ==
    /\ selectedImage = NoFile
    /\ imagePreview = ""
    /\ extractedText = ""
    /\ isProcessing = FALSE
    /\ progress = 0
    /\ extractedFields = <<>>
    /\ pendingReads = [f \in Files |-> 0]
    /\ call = Idle
    /\ liveWorkers = 0
    /\ alertMessage = ""
    /\ text = ""
    /\ importantFields = CodeFields
    /\ lines = <<>>
    /\ fields = <<>>
    /\ xpc = "idle"

\* handleFile(file), reached from handleImageChange and handleDrop
handleFile(file) ==
    /\ pendingReads[file] < MaxReads
    /\ IF ~isImageType(file)
       THEN /\ alertMessage' = TypeAlert
            /\ UNCHANGED <<selectedImage, pendingReads, extractedText, progress,
                           extractedFields>>
       ELSE IF isTooLarge(file)
       THEN /\ alertMessage' = SizeAlert
            /\ UNCHANGED <<selectedImage, pendingReads, extractedText, progress,
                           extractedFields>>
       ELSE /\ selectedImage' = file
            /\ pendingReads' = [pendingReads EXCEPT ![file] = @ + 1]
            /\ extractedText' = ""
            /\ progress' = 0
            /\ extractedFields' = <<>>
            /\ UNCHANGED alertMessage
    /\ UNCHANGED <<imagePreview, isProcessing, call, liveWorkers>>
    /\ UNCHANGED runVars

HandleFile == \E file \in Files : handleFile(file)

\* reader.onload of a read started by handleFile
ReaderOnload ==
    \E file \in Files :
        /\ pendingReads[file] > 0
        /\ imagePreview' = dataURL(file)
        /\ pendingReads' = [pendingReads EXCEPT ![file] = @ - 1]
        /\ UNCHANGED <<selectedImage, extractedText, isProcessing, progress,
                       extractedFields, call, liveWorkers, alertMessage>>
        /\ UNCHANGED runVars

\* clearImage; its button is rendered only while imagePreview is non-empty
clearImage ==
    /\ imagePreview # ""
    /\ selectedImage' = NoFile
    /\ imagePreview' = ""
    /\ extractedText' = ""
    /\ extractedFields' = <<>>
    /\ progress' = 0
    /\ UNCHANGED <<isProcessing, pendingReads, call, liveWorkers, alertMessage>>
    /\ UNCHANGED runVars

\* extractText up to its first await; its button is rendered only while
\* imagePreview is non-empty and is disabled while isProcessing
extractText ==
    /\ imagePreview # ""
    /\ ~isProcessing
    /\ IF selectedImage = NoFile
       THEN UNCHANGED <<isProcessing, extractedText, extractedFields, call>>
       ELSE /\ isProcessing' = TRUE
            /\ extractedText' = ""
            /\ extractedFields' = <<>>
            /\ call' = [pc |-> "createWorker", image |-> selectedImage]
    /\ UNCHANGED <<selectedImage, imagePreview, progress, pendingReads,
                   liveWorkers, alertMessage>>
    /\ UNCHANGED runVars

\* catch { setExtractedText(error text) } finally { setIsProcessing(false) }
catchFinally ==
    /\ extractedText' = ErrorText
    /\ isProcessing' = FALSE
    /\ call' = Idle

\* await createWorker(...) resolves
CreateWorkerResolve ==
    /\ call.pc = "createWorker"
    /\ liveWorkers < MaxWorkers
    /\ liveWorkers' = liveWorkers + 1
    /\ call' = [call EXCEPT !.pc = "recognize"]
    /\ UNCHANGED <<selectedImage, imagePreview, extractedText, isProcessing,
                   progress, extractedFields, pendingReads, alertMessage>>
    /\ UNCHANGED runVars

\* await createWorker(...) rejects: no worker exists
CreateWorkerReject ==
    /\ call.pc = "createWorker"
    /\ catchFinally
    /\ UNCHANGED <<selectedImage, imagePreview, progress, extractedFields,
                   pendingReads, liveWorkers, alertMessage>>
    /\ UNCHANGED runVars

\* logger: a "recognizing text" report while recognize runs
Logger ==
    /\ call.pc = "recognize"
    /\ \E p \in ProgressValues : progress' = p
    /\ UNCHANGED <<selectedImage, imagePreview, extractedText, isProcessing,
                   extractedFields, pendingReads, call, liveWorkers, alertMessage>>
    /\ UNCHANGED runVars

\* await worker.recognize(selectedImage) resolves: lines 112-166 run to the
\* next await, on the image the call captured
RecognizeResolve ==
    /\ call.pc = "recognize"
    /\ text' = recognize(call.image)
    /\ importantFields' = CodeFields
    /\ lines' = normalize(text')
    /\ fields' = buildFields(importantFields', lines')
    /\ xpc' = "done"
    /\ extractedFields' = fields'
    /\ extractedText' = fullText(importantFields', fields')
    /\ call' = [call EXCEPT !.pc = "terminate"]
    /\ UNCHANGED <<selectedImage, imagePreview, isProcessing, progress,
                   pendingReads, liveWorkers, alertMessage>>

\* await worker.recognize(...) rejects: the catch block runs, terminate does not
RecognizeReject ==
    /\ call.pc = "recognize"
    /\ catchFinally
    /\ UNCHANGED <<selectedImage, imagePreview, progress, extractedFields,
                   pendingReads, liveWorkers, alertMessage>>
    /\ UNCHANGED runVars

\* await worker.terminate() resolves, then finally
TerminateResolve ==
    /\ call.pc = "terminate"
    /\ liveWorkers' = liveWorkers - 1
    /\ isProcessing' = FALSE
    /\ call' = Idle
    /\ UNCHANGED <<selectedImage, imagePreview, extractedText, progress,
                   extractedFields, pendingReads, alertMessage>>
    /\ UNCHANGED runVars

\* await worker.terminate() rejects: the worker was not released
TerminateReject ==
    /\ call.pc = "terminate"
    /\ catchFinally
    /\ UNCHANGED <<selectedImage, imagePreview, progress, extractedFields,
                   pendingReads, liveWorkers, alertMessage>>
    /\ UNCHANGED runVars

Next ==
    \/ HandleFile
    \/ ReaderOnload
    \/ clearImage
    \/ extractText
    \/ CreateWorkerResolve
    \/ CreateWorkerReject
    \/ Logger
    \/ RecognizeResolve
    \/ RecognizeReject
    \/ TerminateResolve
    \/ TerminateReject

Spec == Init /\ [][Next]_vars

(***************************************************************************)
(* The extraction run on its own: lines 112-166 executed on an OCR text     *)
(* and a field configuration drawn from bounded sets                        *)
(***************************************************************************)
Corpus ==
    {"Model: Acme X200", "S/N: 99-AB-221", "Model Number", "MX-4410",
     " \r", " Serial No: SERIAL NO", "Not found"}

RECURSIVE joinSegments(_)
joinSegments(segs) ==
    IF Len(segs) = 1 THEN segs[1]
    ELSE segs[1] \o "\n" \o joinSegments(Tail(segs))

\* the empty text, and every text of 1..MaxSegments segments of the corpus
Texts ==
    {""} \cup {joinSegments(segs) :
                  segs \in UNION {[1..n -> Corpus] : n \in 1..MaxSegments}}

ScenarioAFields ==
    << [key |-> "Model Name", patterns |-> <<"model">>],
       [key |-> "Serial Number", patterns |-> <<"s/n">>] >>
ScenarioBFields == << [key |-> "Model Number", patterns |-> <<"model number">>] >>
EmptyPatternFields == << [key |-> "Model Name", patterns |-> <<>>] >>

Configs ==
    {CodeFields, ScenarioAFields, ScenarioBFields, EmptyPatternFields}

\* the state in which worker.recognize has just resolved with `text`
InitRun ==
    /\ selectedImage = "a.png"
    /\ imagePreview = dataURL("a.png")
    /\ extractedText = ""
    /\ isProcessing = TRUE
    /\ progress = 100
    /\ extractedFields = <<>>
    /\ pendingReads = [f \in Files |-> 0]
    /\ call = [pc |-> "recognize", image |-> "a.png"]
    /\ liveWorkers = 1
    /\ alertMessage = ""
    /\ text \in Texts
    /\ importantFields \in Configs
    /\ lines = <<>>
    /\ fields = <<>>
    /\ xpc = "recognized"

\* const lines = text.split("\n").map(...).filter(...)
RunNormalize ==
    /\ xpc = "recognized"
    /\ lines' = normalize(text)
    /\ xpc' = "normalized"
    /\ UNCHANGED <<text, importantFields, fields>>
    /\ UNCHANGED uiVars

\* const fields = {}; importantFields.forEach(...)
RunBuildFields ==
    /\ xpc = "normalized"
    /\ fields' = buildFields(importantFields, lines)
    /\ xpc' = "built"
    /\ UNCHANGED <<text, importantFields, lines>>
    /\ UNCHANGED uiVars

\* setExtractedFields(fields)
RunSetExtractedFields ==
    /\ xpc = "built"
    /\ extractedFields' = fields
    /\ xpc' = "fieldsSet"
    /\ UNCHANGED <<text, importantFields, lines, fields>>
    /\ UNCHANGED <<selectedImage, imagePreview, extractedText, isProcessing,
                   progress, pendingReads, call, liveWorkers, alertMessage>>

\* setExtractedText(fullText), up to `await worker.terminate()`
RunSetExtractedText ==
    /\ xpc = "fieldsSet"
    /\ extractedText' = fullText(importantFields, fields)
    /\ call' = [call EXCEPT !.pc = "terminate"]
    /\ xpc' = "done"
    /\ UNCHANGED <<text, importantFields, lines, fields>>
    /\ UNCHANGED <<selectedImage, imagePreview, isProcessing, progress,
                   extractedFields, pendingReads, liveWorkers, alertMessage>>

NextRun ==
    \/ RunNormalize
    \/ RunBuildFields
    \/ RunSetExtractedFields
    \/ RunSetExtractedText

SpecRun == InitRun /\ [][NextRun]_vars

(***************************************************************************)
(* Notions the properties are stated with, defined without the loops        *)
(***************************************************************************)
\* the line contains the pattern as a case-insensitive substring
ContainsPattern(line, pattern) ==
    \E a \in 1..(Len(line) - Len(pattern) + 1) :
        toLowerCase(SubSeq(line, a, a + Len(pattern) - 1)) = pattern

\* the earliest line containing any pattern of the field, 0 when none does
MatchingLine(fieldConfig, ls) ==
    LET hits == {i \in 1..Len(ls) :
                    \E j \in 1..Len(fieldConfig.patterns) :
                        ContainsPattern(ls[i], fieldConfig.patterns[j])}
    IN IF hits = {} THEN 0 ELSE CHOOSE i \in hits : \A m \in hits : i <= m

\* the first configured pattern that line contains, 0 when none
MatchingPattern(fieldConfig, line) ==
    LET hits == {j \in 1..Len(fieldConfig.patterns) :
                    ContainsPattern(line, fieldConfig.patterns[j])}
    IN IF hits = {} THEN 0 ELSE CHOOSE j \in hits : \A m \in hits : j <= m

\* the stripped candidate of the field's matching line is empty
EmptyCandidate(fieldConfig, ls) ==
    LET i == MatchingLine(fieldConfig, ls)
    IN /\ i > 0
       /\ Len(strippedValue(ls[i],
                fieldConfig.patterns[MatchingPattern(fieldConfig, ls[i])])) = 0

HasPunctuation(s) == \E i \in 1..Len(s) : Char(s, i) \in Punctuation
IsTrimmed(s) ==
    Len(s) > 0 => (Char(s, 1) \notin WhiteSpace /\ Char(s, Len(s)) \notin WhiteSpace)

\* the forEach has just filled the local `fields`, which nothing changes later
FieldsBuilt == xpc = "built"
FieldIndexes == 1..Len(importantFields)

ScenarioALines == <<"Model: Acme X200", "S/N: 99-AB-221">>
ScenarioARun ==
    /\ xpc = "done"
    /\ importantFields = ScenarioAFields
    /\ lines = ScenarioALines

(***************************************************************************)
(* C1. Scenario A: with the lines ["Model: Acme X200", "S/N: 99-AB-221"]    *)
(* and the specs Model Name ["model"], Serial Number ["s/n"].               *)
(***************************************************************************)
\* C1 as claimed: the result is Model Name = "Acme X200" and
\* Serial Number = "99-AB-221".
C1_ScenarioA_AsClaimed ==
    ScenarioARun =>
        extractedFields = << [key |-> "Model Name", value |-> "Acme X200"],
                             [key |-> "Serial Number", value |-> "99-AB-221"] >>

\* C1 amended: the result is Model Name = "Acme X200" and Serial Number =
\* "99AB221": each value is the matching line with the pattern removed, then
\* ':', '=', '-', '|' removed (the hyphens of the serial number too), trimmed.
C1_ScenarioA ==
    ScenarioARun =>
        /\ extractedFields = << [key |-> "Model Name", value |-> "Acme X200"],
                                [key |-> "Serial Number", value |-> "99AB221"] >>
        /\ extractedText = "Model Name: Acme X200\nSerial Number: 99AB221"

C1_Witness == ScenarioARun /\ text = "Model: Acme X200\nS/N: 99-AB-221"

C2_WitnessLast ==
    /\ FieldsBuilt
    /\ \E k \in FieldIndexes :
          /\ EmptyCandidate(importantFields[k], lines)
          /\ MatchingLine(importantFields[k], lines) = Len(lines)
          /\ fields[k].value = NotFound

(***************************************************************************)
(* C3. Every field value that is not NotFound is non-empty, trimmed and     *)
(* free of ':', '=', '-', '|'.                                              *)
(***************************************************************************)
\* C3 as claimed: also for values obtained through the next-line fallback.
C3_AsClaimed ==
    xpc = "done" =>
        \A k \in 1..Len(extractedFields) :
            extractedFields[k].value # NotFound =>
                /\ Len(extractedFields[k].value) > 0
                /\ IsTrimmed(extractedFields[k].value)
                /\ ~HasPunctuation(extractedFields[k].value)

\* C3 amended: every value that is not NotFound is non-empty and trimmed; it
\* holds none of ':', '=', '-', '|' unless it was obtained through the
\* next-line fallback, which returns the following line as it is.
C3_FoundValues ==
    xpc = "done" =>
        \A k \in 1..Len(extractedFields) :
            extractedFields[k].value # NotFound =>
                /\ Len(extractedFields[k].value) > 0
                /\ IsTrimmed(extractedFields[k].value)
                /\ HasPunctuation(extractedFields[k].value) =>
                       /\ EmptyCandidate(importantFields[k], lines)
                       /\ MatchingLine(importantFields[k], lines) < Len(lines)
                       /\ extractedFields[k].value =
                              lines[MatchingLine(importantFields[k], lines) + 1]

\* a run with one value taken from its line (the line has punctuation and
\* surrounding text to strip) and one taken through the fallback, with '-'
C3_Witness ==
    /\ xpc = "done"
    /\ \E k \in 1..Len(extractedFields) :
          /\ ~EmptyCandidate(importantFields[k], lines)
          /\ MatchingLine(importantFields[k], lines) > 0
          /\ HasPunctuation(lines[MatchingLine(importantFields[k], lines)])
          /\ extractedFields[k].value # NotFound
    /\ \E k \in 1..Len(extractedFields) :
          /\ EmptyCandidate(importantFields[k], lines)
          /\ HasPunctuation(extractedFields[k].value)

C5_NoMatchNotFound ==
    xpc = "done" =>
        /\ \A k \in FieldIndexes :
              (\A i \in 1..Len(lines) : \A j \in 1..Len(importantFields[k].patterns) :
                   ~ContainsPattern(lines[i], importantFields[k].patterns[j]))
              => /\ extractedFields[k].key = importantFields[k].key
                 /\ extractedFields[k].value = NotFound
        /\ text = "" =>
              /\ lines = <<>>
              /\ \A k \in FieldIndexes : extractedFields[k].value = NotFound

\* a run on a non-empty line sequence none of whose lines names the field
C5_Witness ==
    /\ xpc = "done"
    /\ importantFields = CodeFields
    /\ Len(lines) > 1
    /\ \A k \in FieldIndexes :
          /\ MatchingLine(importantFields[k], lines) = 0
          /\ extractedFields[k].value = NotFound

\* Scenario D
C5_WitnessEmptyText ==
    xpc = "done" /\ text = "" /\ importantFields = CodeFields /\ lines = <<>>

(***************************************************************************)
(* C6. The result holds exactly one entry per configured field, in         *)
(* configuration order, and the summary is one line "<key>: <value>" per   *)
(* configured field, in that order, joined by newlines.                    *)
(***************************************************************************)
C6_ResultAndSummary ==
    xpc = "done" =>
        LET summaryLines == split(extractedText)
        IN /\ Len(extractedFields) = Len(importantFields)
           /\ Len(summaryLines) = Len(importantFields)
           /\ \A k \in FieldIndexes :
                 /\ extractedFields[k].key = importantFields[k].key
                 /\ extractedFields[k].value =
                        extractFieldValue(importantFields[k], lines)
                 /\ summaryLines[k] =
                        importantFields[k].key \o ": " \o extractedFields[k].value

\* a finished run over several fields, some found and some not
C6_Witness ==
    /\ xpc = "done"
    /\ Len(importantFields) > 2
    /\ \E k \in FieldIndexes : extractedFields[k].value = NotFound
    /\ \E k \in FieldIndexes : extractedFields[k].value # NotFound

(***************************************************************************)
(* C7. The normalized line sequence holds no empty string, every element   *)
(* is trimmed, and the lines are the non-blank segments of the raw text    *)
(* in their original order.                                                 *)
(***************************************************************************)
\* positions that bound the newline-separated segments of the raw text
Breaks == {0, Len(text) + 1} \cup {i \in 1..Len(text) : Char(text, i) = "\n"}
NextBreak(a) == CHOOSE b \in Breaks : b > a /\ \A c \in Breaks : c > a => b <= c
Inked(a) == {i \in (a + 1)..(NextBreak(a) - 1) : Char(text, i) \notin WhiteSpace}
\* the segments with a non-blank character, by the break they start after
KeptSegments == {a \in Breaks : a <= Len(text) /\ Inked(a) # {}}
\* a segment from its first to its last non-blank character
Core(a) ==
    SubSeq(text, CHOOSE i \in Inked(a) : \A m \in Inked(a) : i <= m,
                 CHOOSE i \in Inked(a) : \A m \in Inked(a) : i >= m)

C7_NormalizedLines ==
    xpc = "normalized" =>
        /\ Len(lines) = Cardinality(KeptSegments)
        /\ \A k \in 1..Len(lines) :
              /\ Len(lines[k]) > 0
              /\ IsTrimmed(lines[k])
              /\ \E a \in KeptSegments :
                    /\ Cardinality({c \in KeptSegments : c < a}) = k - 1
                    /\ lines[k] = Core(a)

\* a text with a blank segment between two kept ones, one of them padded
C7_Witness ==
    /\ xpc = "normalized"
    /\ Len(lines) = 2
    /\ Cardinality(Breaks) = 4
    /\ lines[1] # lines[2]
    /\ \E a \in KeptSegments : Len(Core(a)) < NextBreak(a) - a - 1

(***************************************************************************)
(* C8. A field with an empty pattern list is rejected, and is not treated  *)
(* as a field that never matches: extraction does not answer NotFound for  *)
(* it.                                                                      *)
(***************************************************************************)
C8_EmptyPatternsRejected ==
    xpc = "done" =>
        \A k \in FieldIndexes :
            Len(importantFields[k].patterns) = 0 =>
                extractedFields[k].value # NotFound

(***************************************************************************)
(* C9. Every OCR worker created by a call of extractText is terminated on  *)
(* every exit path: once the call has finished and isProcessing is false,  *)
(* no created worker remains un-terminated.                                 *)
(***************************************************************************)
C9_WorkersReleased ==
    (call.pc = "idle" /\ ~isProcessing) => liveWorkers = 0

(***************************************************************************)
(* C10. Whenever extractedFields is non-empty, it was computed from the    *)
(* image that is currently selectedImage.                                  *)
(***************************************************************************)
C10_FieldsOfSelectedImage ==
    Len(extractedFields) > 0 =>
        /\ selectedImage # NoFile
        /\ extractedFields =
               buildFields(CodeFields, normalize(recognize(selectedImage)))

(***************************************************************************)
(* C11. After an extractText call that ends on the error path (any step of *)
(* the try block throws: worker creation, recognition or termination),     *)
(* extractedText is the error message and extractedFields is empty: the    *)
(* error message is never shown together with structured field results.    *)
(* Every error path ends in catchFinally, which sets extractedText to the  *)
(* error message, and nothing else sets it to that message.                *)
(***************************************************************************)
C11_ErrorWithoutFields ==
    extractedText = ErrorText => Len(extractedFields) = 0

====
